---------------------------- MODULE Spec2Model ----------------------------
(* A model of three parts of samply:                                       *)
(*   - the macOS task-port bridge (samply/src/mac/process_launcher.rs),    *)
(*   - the Mach-O symbolication engine (lib/src/macho.rs),                 *)
(*   - the PDB inline-frame resolver (lib/src/pdb/addr2line.rs).           *)
(* Each part has its own specification (SpecTask, SpecArch, Spec,          *)
(* FairSpec, SpecPdb); the variables of the other parts stay idle.         *)
EXTENDS Integers, Sequences, FiniteSets, TLC

VARIABLES
    \* ---- process_launcher.rs ----
    tasks,      \* the AcceptedTask values handed out by next_message
    origin,     \* per AcceptedTask: the message it was built from (history)
    takes,      \* per AcceptedTask: the ports take_task returned (history)
    startLog,   \* indices of the tasks start_execution was called on (history)
    sent,       \* what was sent to the child: [chan, data, ports]
    ret,        \* what the last call returned
    nCalls,     \* number of calls made so far
    \* ---- macho.rs: get_arch_range ----
    arch,       \* state of one get_arch_range call
    \* ---- macho.rs: get_symbolication_result ----
    mo,         \* state of one get_symbolication_result call
    \* ---- pdb/addr2line.rs ----
    pdb         \* state of one find_frames_for_addresses_from_procedure call

taskVars == <<tasks, origin, takes, startLog, sent, ret, nCalls>>
vars == <<tasks, origin, takes, startLog, sent, ret, nCalls, arch, mo, pdb>>

-----------------------------------------------------------------------------
(* Helpers                                                                 *)

Last(s) == s[Len(s)]

Front(s) == SubSeq(s, 1, Len(s) - 1)

Range(s) == {s[i] : i \in 1..Len(s)}

\* slice[from..] with a 0-based start, as Rust's &s[from..]
Drop(s, n) == SubSeq(s, n + 1, Len(s))

\* slice[..n], as Rust's &s[..n]
Take(s, n) == SubSeq(s, 1, n)

-----------------------------------------------------------------------------
(* process_launcher.rs                                                     *)

MACH_PORT_NULL == 0

\* b"My task", b"Jitdump", b"Proceed" as bytes
TagMyTask == <<77, 121, 32, 116, 97, 115, 107>>

TagJitdump == <<74, 105, 116, 100, 117, 109, 112>>

MsgProceed == <<80, 114, 111, 99, 101, 101, 100>>

\* u32::from_le_bytes
from_le_bytes(b) == b[1] + 256 * b[2] + 65536 * b[3] + 16777216 * b[4]

\* bounds of the bridge model
MaxTasks == 2

MaxCalls == 4

\* pid payloads the child may send (1234 = 0x000004D2 first)
PidSamples == {<<210, 4, 0, 0>>, <<0, 0, 0, 1>>, <<255, 255, 255, 127>>}

\* channel lists the child may attach: [sender, task]; too few; one extra
ChannelSamples ==
    {<<11, 21>>, <<12, 22>>, <<11, MACH_PORT_NULL>>, <<12>>, <<>>, <<13, 11, 22>>}

PathSamples == {<<97, 47, 98, 47, 99>>, <<120>>, <<>>}

\* the datagrams the child may send
ChildMessages ==
    {[data |-> TagMyTask \o p, channels |-> c] :
        p \in PidSamples \cup {<<1, 2, 3>>}, c \in ChannelSamples}
    \cup {[data |-> TagJitdump \o p \o <<l>> \o path, channels |-> <<>>] :
            p \in PidSamples, l \in {0, 1, 5, 6}, path \in PathSamples}
    \cup {[data |-> <<85, 110, 107, 110, 111, 119, 110>>, channels |-> <<>>],
          [data |-> <<77, 121>>, channels |-> <<>>]}

\* a swapped pop order: the sender taken from the last channel
next_message_swapped(m) ==
    LET res == m.data  channels == m.channels
    IN  IF Len(res) < 7 THEN [tag |-> "panic"]
        ELSE IF Take(res, 7) = TagMyTask THEN
            LET pid_bytes == Drop(res, 7)
            IN  IF Len(pid_bytes) # 4 \/ Len(channels) < 2 THEN [tag |-> "panic"]
                ELSE [tag |-> "AcceptedTask",
                      task |-> Last(Front(channels)),
                      pid |-> from_le_bytes(pid_bytes),
                      sender_channel |-> Last(channels)]
        ELSE [tag |-> "panic"]

\* a decoding that starts the path at the length byte
next_message_path_from_length(m) ==
    LET res == m.data
    IN  IF Len(res) >= 12 /\ Take(res, 7) = TagJitdump
        THEN LET jitdump_info == Drop(res, 7)
                 len == jitdump_info[5]
             IN  IF Len(jitdump_info) - 4 < len THEN [tag |-> "panic"]
                 ELSE [tag |-> "JitdumpPath",
                       pid |-> from_le_bytes(Take(jitdump_info, 4)),
                       path |-> Take(Drop(jitdump_info, 4), len)]
        ELSE [tag |-> "panic"]

\* TaskAccepter::next_message, after accept returned the datagram m
next_message(m) ==
    LET res == m.data  channels == m.channels
    IN  IF Len(res) < 7 THEN [tag |-> "panic"]              \* split_at(7)
        ELSE IF Take(res, 7) = TagMyTask THEN
            LET pid_bytes == Drop(res, 7)
            IN  IF Len(pid_bytes) # 4 THEN [tag |-> "panic"]   \* assert!
                ELSE IF Len(channels) < 2 THEN [tag |-> "panic"] \* pop().unwrap()
                ELSE [tag |-> "AcceptedTask",
                      task |-> Last(channels),                 \* first pop
                      pid |-> from_le_bytes(pid_bytes),
                      sender_channel |-> Last(Front(channels))] \* second pop
        ELSE IF Take(res, 7) = TagJitdump THEN
            LET jitdump_info == Drop(res, 7)
            IN  IF Len(jitdump_info) < 5 THEN [tag |-> "panic"]
                ELSE LET len == jitdump_info[5]
                     IN  IF Len(jitdump_info) - 5 < len THEN [tag |-> "panic"]
                         ELSE [tag |-> "JitdumpPath",
                               pid |-> from_le_bytes(Take(jitdump_info, 4)),
                               path |-> Take(Drop(jitdump_info, 5), len)]
        ELSE [tag |-> "panic"]

\* take_task that hands the port out and keeps it
take_task_keep(t) == [ret |-> t.task, self |-> t]

\* AcceptedTask::take_task: mem::replace(&mut self.task, MACH_PORT_NULL)
take_task(t) == [ret |-> t.task, self |-> [t EXCEPT !.task = MACH_PORT_NULL]]

\* AcceptedTask::get_id
get_id(t) == t.pid

\* AcceptedTask::start_execution: the send it makes
start_execution(t) == [chan |-> t.sender_channel, data |-> MsgProceed, ports |-> <<>>]

\* idle values of the parts a specification does not run
ArchIdle == arch = [pc |-> "idle"]

MachIdle == mo = [pc |-> "idle"]

PdbIdle == pdb = [pc |-> "idle"]

TaskInit ==
    /\ tasks = <<>>
    /\ origin = <<>>
    /\ takes = <<>>
    /\ startLog = <<>>
    /\ sent = <<>>
    /\ ret = [op |-> "none"]
    /\ nCalls = 0

TaskLive == nCalls < MaxCalls /\ ret.op # "panic"

\* next_message: accept times out, the error is passed on
NextMessageTimeout ==
    /\ TaskLive
    /\ ret' = [op |-> "next_message", tag |-> "Err"]
    /\ nCalls' = nCalls + 1
    /\ UNCHANGED <<tasks, origin, takes, startLog, sent, arch, mo, pdb>>

\* next_message: a datagram arrives
NextMessage ==
    /\ TaskLive
    /\ \E m \in ChildMessages :
        LET r == next_message(m)
        IN  /\ nCalls' = nCalls + 1
            /\ IF r.tag = "panic" THEN
                  /\ ret' = [op |-> "panic"]
                  /\ UNCHANGED <<tasks, origin, takes>>
               ELSE IF r.tag = "AcceptedTask" THEN
                  /\ Len(tasks) < MaxTasks
                  /\ tasks' = Append(tasks, [task |-> r.task, pid |-> r.pid,
                                             sender_channel |-> r.sender_channel])
                  /\ origin' = Append(origin, m)
                  /\ takes' = Append(takes, <<>>)
                  /\ ret' = [op |-> "next_message", tag |-> "AcceptedTask",
                             index |-> Len(tasks) + 1]
               ELSE
                  /\ ret' = [op |-> "next_message", tag |-> "JitdumpPath",
                             pid |-> r.pid, path |-> r.path, msg |-> m]
                  /\ UNCHANGED <<tasks, origin, takes>>
    /\ UNCHANGED <<startLog, sent, arch, mo, pdb>>

TakeTask ==
    /\ TaskLive
    /\ \E i \in 1..Len(tasks) :
        LET r == take_task(tasks[i])
        IN  /\ tasks' = [tasks EXCEPT ![i] = r.self]
            /\ takes' = [takes EXCEPT ![i] = Append(@, r.ret)]
            /\ ret' = [op |-> "take_task", index |-> i, value |-> r.ret]
    /\ nCalls' = nCalls + 1
    /\ UNCHANGED <<origin, startLog, sent, arch, mo, pdb>>

GetId ==
    /\ TaskLive
    /\ \E i \in 1..Len(tasks) :
        ret' = [op |-> "get_id", index |-> i, value |-> get_id(tasks[i])]
    /\ nCalls' = nCalls + 1
    /\ UNCHANGED <<tasks, origin, takes, startLog, sent, arch, mo, pdb>>

StartExecution ==
    /\ TaskLive
    /\ \E i \in 1..Len(tasks) :
        /\ sent' = Append(sent, start_execution(tasks[i]))
        /\ startLog' = Append(startLog, i)
        /\ ret' = [op |-> "start_execution", index |-> i]
    /\ nCalls' = nCalls + 1
    /\ UNCHANGED <<tasks, origin, takes, arch, mo, pdb>>

InitTask == TaskInit /\ ArchIdle /\ MachIdle /\ PdbIdle

NextTask ==
    \/ NextMessageTimeout
    \/ NextMessage
    \/ TakeTask
    \/ GetId
    \/ StartExecution

SpecTask == InitTask /\ [][NextTask]_vars

\* the port that arrived as the task channel of the message task i came from
ReceivedPort(i) == origin[i].channels[Len(origin[i].channels)]

\* C9: across any calls of take_task, get_id and start_execution on one
\* AcceptedTask the received task port is handed out exactly once: until the
\* first take_task the stored port is the received one, the first take_task
\* returns it, every later take_task returns the null port, and from the first
\* take_task on the stored port is the null port.
C9_TaskPortHandedOutOnce ==
    \A i \in 1..Len(tasks) :
        /\ takes[i] = <<>> => tasks[i].task = ReceivedPort(i)
        /\ takes[i] # <<>> =>
            /\ takes[i][1] = ReceivedPort(i)
            /\ \A k \in 2..Len(takes[i]) : takes[i][k] = MACH_PORT_NULL
            /\ tasks[i].task = MACH_PORT_NULL

\* C9 witness: a task with a real port was started and then taken twice
C9_Witness ==
    \E i \in 1..Len(tasks) :
        /\ Len(takes[i]) >= 2
        /\ takes[i][1] # MACH_PORT_NULL
        /\ startLog = <<i>>

\* C10: a "My task" datagram with a 4-byte pid and the channels [sender, task]
\* becomes an AcceptedTask with the little-endian pid, the task channel's port
\* and the sender channel; every send to the child is one start_execution's
\* 7 bytes "Proceed" with no ports on that task's sender channel, so nothing is
\* sent before start_execution is called.
C10_MyTaskThenProceed ==
    /\ \A i \in 1..Len(tasks) :
        LET m == origin[i]
        IN  (Len(m.data) = 11 /\ Len(m.channels) = 2) =>
              /\ SubSeq(m.data, 1, 7) = <<77, 121, 32, 116, 97, 115, 107>>
              /\ tasks[i].pid = m.data[8] + m.data[9] * 256
                                + m.data[10] * 65536 + m.data[11] * 16777216
              /\ (m.data[8] = 210 /\ m.data[9] = 4 /\ m.data[10] = 0
                    /\ m.data[11] = 0) => tasks[i].pid = 1234
              /\ tasks[i].sender_channel = m.channels[1]
              /\ takes[i] = <<>> => tasks[i].task = m.channels[2]
    /\ Len(sent) = Len(startLog)
    /\ \A k \in 1..Len(sent) :
        LET c == origin[startLog[k]].channels
        IN  sent[k] = [chan |-> c[Len(c) - 1],
                       data |-> <<80, 114, 111, 99, 101, 101, 100>>,
                       ports |-> <<>>]

\* C10 witness: pid 1234 arrived with [11, 21] and the task was started
C10_Witness ==
    /\ Len(tasks) >= 1
    /\ origin[1] = [data |-> TagMyTask \o <<210, 4, 0, 0>>, channels |-> <<11, 21>>]
    /\ tasks[1].pid = 1234
    /\ startLog = <<1>>
    /\ sent = <<[chan |-> 11, data |-> MsgProceed, ports |-> <<>>]>>

-----------------------------------------------------------------------------
(* macho.rs: build-ids and fat-binary slice selection                      *)

HexUpper ==
    <<"0", "1", "2", "3", "4", "5", "6", "7", "8", "9", "A", "B", "C", "D", "E", "F">>

HexLower ==
    <<"0", "1", "2", "3", "4", "5", "6", "7", "8", "9", "a", "b", "c", "d", "e", "f">>

\* the hex digits of a byte string, two per byte, high nibble first
HexString(bytes, digits) ==
    [k \in 1..(2 * Len(bytes)) |->
        IF k % 2 = 1 THEN digits[(bytes[(k + 1) \div 2] \div 16) + 1]
        ELSE digits[(bytes[k \div 2] % 16) + 1]]

\* format!("{:X}0", Uuid::from_bytes(uuid).to_simple())
FormatBuildId(uuid) == HexString(uuid, HexUpper) \o <<"0">>

\* 16-byte UUIDs: 00..01, 00..02 and AB 00 .. 00 1F
UuidOne == [k \in 1..16 |-> IF k = 16 THEN 1 ELSE 0]

UuidTwo == [k \in 1..16 |-> IF k = 16 THEN 2 ELSE 0]

UuidAB == [k \in 1..16 |-> IF k = 1 THEN 171 ELSE IF k = 16 THEN 31 ELSE 0]

UuidSamples == {UuidOne, UuidTwo, UuidAB}

\* the build-ids a query may carry: well-formed ones, a lower-case one and
\* one without the trailing 0
BreakpadIdSamples ==
    {FormatBuildId(UuidOne), FormatBuildId(UuidTwo), FormatBuildId(UuidAB),
     HexString(UuidAB, HexLower) \o <<"0">>, HexString(UuidOne, HexUpper)}

\* what a byte range can hold: kind is what FileKind::parse and the header
\* parse make of it, uuid is its LC_UUID (<<>>: none)
SliceSamples ==
    {[kind |-> "MachO64", uuid |-> u] : u \in UuidSamples \cup {<<>>}}
    \cup {[kind |-> "MachO32", uuid |-> UuidOne],
          [kind |-> "Unparsable", uuid |-> <<>>],
          [kind |-> "Other", uuid |-> <<>>]}

\* get_macho_uuid without the upper-case conversion
get_macho_uuid_lower(data) ==
    CASE data.kind = "Unparsable" ->
            [tag |-> "Err", val |-> "MachOHeaderParseError"]
      [] data.kind = "Other" -> [tag |-> "panic", val |-> ""]
      [] data.uuid = <<>> -> [tag |-> "Err", val |-> "InvalidInputError"]
      [] OTHER -> [tag |-> "Ok", val |-> HexString(data.uuid, HexLower) \o <<"0">>]

\* get_macho_uuid
get_macho_uuid(data) ==
    CASE data.kind = "Unparsable" ->
            [tag |-> "Err", val |-> "MachOHeaderParseError"]
      [] data.kind = "Other" -> [tag |-> "panic", val |-> ""]   \* panic!
      [] data.uuid = <<>> -> [tag |-> "Err", val |-> "InvalidInputError"]
      [] OTHER -> [tag |-> "Ok", val |-> FormatBuildId(data.uuid)]

NoArchResult == [tag |-> "none", range |-> <<>>, uuids |-> <<>>, errors |-> <<>>]

\* one pass of the for loop that gives up at the first slice without a build-id
get_arch_range_iteration_abort(a) ==
    LET fat_arch == a.arches[a.i]
        r == get_macho_uuid(fat_arch.slice)
    IN  IF r.tag = "Ok" /\ r.val = a.breakpad_id
        THEN [a EXCEPT !.pc = "done",
                       !.result = [NoArchResult EXCEPT !.tag = "Ok",
                                                       !.range = fat_arch.range]]
        ELSE IF r.tag = "Ok"
        THEN [a EXCEPT !.i = a.i + 1, !.uuids = Append(a.uuids, r.val)]
        ELSE [a EXCEPT !.pc = "done",
                       !.result = [NoArchResult EXCEPT
                                      !.tag = "NoMatchMultiArch",
                                      !.uuids = a.uuids,
                                      !.errors = Append(a.errors, r.val)]]

\* get_arch_range: one pass of the for loop over arches
get_arch_range_iteration(a) ==
    LET fat_arch == a.arches[a.i]
        range == fat_arch.range
        r == get_macho_uuid(fat_arch.slice)    \* file_contents.range(start, size)
    IN  CASE r.tag = "panic" ->
                [a EXCEPT !.pc = "done", !.result = [NoArchResult EXCEPT !.tag = "panic"]]
          [] r.tag = "Ok" /\ r.val = a.breakpad_id ->
                [a EXCEPT !.pc = "done",
                          !.result = [NoArchResult EXCEPT !.tag = "Ok", !.range = range]]
          [] r.tag = "Ok" /\ r.val # a.breakpad_id ->
                [a EXCEPT !.i = a.i + 1, !.uuids = Append(a.uuids, r.val)]
          [] OTHER ->
                [a EXCEPT !.i = a.i + 1, !.errors = Append(a.errors, r.val)]

\* get_arch_range: the loop is over, nothing matched
get_arch_range_no_match(a) ==
    [a EXCEPT !.pc = "done",
              !.result = [NoArchResult EXCEPT !.tag = "NoMatchMultiArch",
                                              !.uuids = a.uuids,
                                              !.errors = a.errors]]

\* bound: the number of architecture descriptors of a fat binary
MaxArches == 3

\* the descriptor at position k covers the file range (16 * k, 16)
ArchLists ==
    UNION {{[k \in 1..n |-> [range |-> <<16 * k, 16>>, slice |-> s[k]]] :
                s \in [1..n -> SliceSamples]} : n \in 0..MaxArches}

ArchInit ==
    \E arches \in ArchLists, id \in BreakpadIdSamples :
        arch = [pc |-> "loop", arches |-> arches, breakpad_id |-> id, i |-> 1,
                uuids |-> <<>>, errors |-> <<>>, result |-> NoArchResult]

ArchIteration ==
    /\ arch.pc = "loop"
    /\ arch.i <= Len(arch.arches)
    /\ arch' = get_arch_range_iteration(arch)
    /\ UNCHANGED <<taskVars, mo, pdb>>

ArchNoMatch ==
    /\ arch.pc = "loop"
    /\ arch.i > Len(arch.arches)
    /\ arch' = get_arch_range_no_match(arch)
    /\ UNCHANGED <<taskVars, mo, pdb>>

InitArch == ArchInit /\ TaskInit /\ MachIdle /\ PdbIdle

NextArch ==
    \/ ArchIteration
    \/ ArchNoMatch

SpecArch == InitArch /\ [][NextArch]_vars

\* the build-id slice k yields, <<>> when it yields none
SliceBuildId(k) ==
    LET s == arch.arches[k].slice
    IN  IF s.kind \in {"MachO32", "MachO64"} /\ s.uuid # <<>>
        THEN HexString(s.uuid, HexUpper) \o <<"0">> ELSE <<>>

MatchingArches == {k \in 1..Len(arch.arches) : SliceBuildId(k) = arch.breakpad_id}

\* positions whose slice is of a file kind get_macho_uuid does not accept
OtherKindArches == {k \in 1..Len(arch.arches) : arch.arches[k].slice.kind = "Other"}

\* the entries of s that satisfy Keep, in order
RECURSIVE FilterIndices(_, _)
FilterIndices(n, keep) ==
    IF n = 0 THEN <<>>
    ELSE IF n \in keep THEN Append(FilterIndices(n - 1, keep), n)
    ELSE FilterIndices(n - 1, keep)

\* C8: get_arch_range goes through the descriptors in list order and returns
\* the range of the first one whose slice has the target build-id; slices that
\* do not parse or have no UUID do not end the search; when no slice matches
\* the error carries the build-id of every slice that has one and the error of
\* every other slice, in order, one entry per descriptor. (A slice of another
\* file kind ends the call with a panic, which returns nothing.)
C8_FirstMatchingSlice ==
    arch.pc = "done" =>
        LET n == Len(arch.arches)
            first == IF MatchingArches = {} THEN n + 1
                     ELSE CHOOSE k \in MatchingArches :
                              \A j \in MatchingArches : k <= j
            seen == {k \in 1..n : k < first}
            withId == FilterIndices(n, {k \in 1..n : SliceBuildId(k) # <<>>})
            noId == FilterIndices(n, {k \in 1..n : SliceBuildId(k) = <<>>})
        IN  IF seen \cap OtherKindArches # {} THEN arch.result.tag = "panic"
            ELSE IF MatchingArches # {}
            THEN /\ arch.result.tag = "Ok"
                 /\ arch.result.range = arch.arches[first].range
                 /\ arch.result.range = <<16 * first, 16>>
            ELSE /\ arch.result.tag = "NoMatchMultiArch"
                 /\ arch.result.uuids = [k \in 1..Len(withId) |-> SliceBuildId(withId[k])]
                 /\ arch.result.errors =
                        [k \in 1..Len(noId) |->
                            IF arch.arches[noId[k]].slice.kind = "Unparsable"
                            THEN "MachOHeaderParseError" ELSE "InvalidInputError"]
                 /\ Len(arch.result.uuids) + Len(arch.result.errors) = n

\* C8 witness: the slice after an unparsable one and one without UUID matches
C8_Witness ==
    /\ arch.pc = "done"
    /\ Len(arch.arches) = 3
    /\ arch.arches[1].slice.kind = "Unparsable"
    /\ arch.arches[2].slice = [kind |-> "MachO64", uuid |-> <<>>]
    /\ arch.arches[3].slice = [kind |-> "MachO64", uuid |-> UuidTwo]
    /\ arch.breakpad_id =
        <<"0", "0", "0", "0", "0", "0", "0", "0", "0", "0", "0", "0", "0", "0", "0", "0",
          "0", "0", "0", "0", "0", "0", "0", "0", "0", "0", "0", "0", "0", "0", "0", "2",
          "0">>
    /\ arch.result.tag = "Ok"
    /\ arch.result.range = <<48, 16>>

\* C8 witness of the error: no slice matches, both lists are filled
C8_WitnessNoMatch ==
    /\ arch.pc = "done"
    /\ arch.result.tag = "NoMatchMultiArch"
    /\ Len(arch.result.uuids) = 2
    /\ Len(arch.result.errors) = 1

-----------------------------------------------------------------------------
(* macho.rs: the local-vs-external split of one object                     *)

\* a HashMap with no entries
EmptyMap == [k \in {} |-> <<>>]

\* HashMap::insert: a value already stored under the key is replaced
MapInsert(map, key, value) == (key :> value) @@ map

\* all orders in which the keys of a HashMap may be iterated
Orders(S) ==
    {s \in [1..Cardinality(S) -> S] : \A i, j \in 1..Cardinality(S) : s[i] = s[j] => i = j}

\* x put into a list sorted by the field key: behind every entry whose key
\* is not larger (sort_by_key is stable)
InsertByKey(sorted, x, key) ==
    LET n == Cardinality({i \in 1..Len(sorted) : sorted[i][key] <= x[key]})
    IN  SubSeq(sorted, 1, n) \o <<x>> \o SubSeq(sorted, n + 1, Len(sorted))

RECURSIVE SortByKey(_, _)
\* slice::sort_by_key, the key being the field key of the entries
SortByKey(s, key) ==
    IF s = <<>> THEN <<>>
    ELSE InsertByKey(SortByKey(Front(s), key), Last(s), key)

RECURSIVE match_loop(_, _, _, _, _, _)
\* the while loop of match_funs_to_addresses: i and j are the positions of
\* cur_addr and cur_fun
match_loop(function_symbols, addresses, i, j, cur_fun_is_last_vec_element, matches) ==
    IF i > Len(addresses) \/ j > Len(function_symbols) THEN matches
    ELSE
        LET address_pair == addresses[i]
            fun == function_symbols[j]
            original_address == address_pair.original_address
            address_in_this_object == address_pair.address_in_this_object
        IN  IF ~(fun.address <= address_in_this_object)
            THEN \* Advance address_pair.
                 match_loop(function_symbols, addresses, i + 1, j,
                            cur_fun_is_last_vec_element, matches)
            ELSE IF ~(address_in_this_object < fun.address + fun.size)
            THEN \* Advance fun.
                 match_loop(function_symbols, addresses, i, j + 1, FALSE, matches)
            ELSE
                LET address_with_offset ==
                        [original_address |-> original_address,
                         offset_from_function_start |->
                            address_in_this_object - fun.address]
                IN  IF cur_fun_is_last_vec_element
                    THEN match_loop(function_symbols, addresses, i + 1, j, TRUE,
                            [matches EXCEPT ![Len(matches)].addresses =
                                Append(@, address_with_offset)])
                    ELSE match_loop(function_symbols, addresses, i + 1, j, TRUE,
                            Append(matches,
                                [object_index |-> fun.object_index,
                                 fun_name |-> fun.name,
                                 addresses |-> <<address_with_offset>>]))

\* a matcher that starts at the second symbol
match_funs_to_addresses_skip_first(function_symbols, addresses) ==
    match_loop(function_symbols, addresses, 1, 2, FALSE, <<>>)

\* match_funs_to_addresses
match_funs_to_addresses(function_symbols, addresses) ==
    match_loop(function_symbols, addresses, 1, 1, FALSE, <<>>)

RECURSIVE external_funs_loop(_, _)
\* external_funs_by_object after the first k matched functions:
\* entry(object_index).or_insert_with(new).insert(fun_name, addresses)
external_funs_loop(matches, k) ==
    IF k = 0 THEN EmptyMap
    ELSE
        LET before == external_funs_loop(matches, k - 1)
            m == matches[k]
            functions == IF m.object_index \in DOMAIN before
                         THEN before[m.object_index] ELSE EmptyMap
        IN  MapInsert(before, m.object_index,
                      MapInsert(functions, m.fun_name, m.addresses))

\* original_addresses_found_in_external_objects
found_in_external_objects(matches) ==
    UNION {{matches[k].addresses[n].original_address :
                n \in 1..Len(matches[k].addresses)} : k \in 1..Len(matches)}

\* internal_addresses
internal_addresses(addresses, matches) ==
    LET found == found_in_external_objects(matches)
        NotFound(ap) == ap.original_address \notin found
    IN  SelectSeq(addresses, NotFound)

\* An object name is a list of pieces, "(" and ")" being pieces of their own:
\* "lib.a(m.o)" is <<"lib.a", "(", "m.o", ")">>.
\* str::find('('): the position of the first "(", 0 when there is none
FindParen(object_name) ==
    IF \E i \in 1..Len(object_name) : object_name[i] = "("
    THEN CHOOSE i \in 1..Len(object_name) :
            /\ object_name[i] = "("
            /\ \A j \in 1..(i - 1) : object_name[j] # "("
    ELSE 0

RECURSIVE TrimStartMatches(_, _)
TrimStartMatches(s, c) ==
    IF s # <<>> /\ Head(s) = c THEN TrimStartMatches(Tail(s), c) ELSE s

RECURSIVE TrimEndMatches(_, _)
TrimEndMatches(s, c) ==
    IF s # <<>> /\ Last(s) = c THEN TrimEndMatches(Front(s), c) ELSE s

\* an ObjectReference; the field its kind does not have is empty
RegularRef(path, functions) ==
    [kind |-> "Regular", path |-> path, functions |-> functions,
     archive_info |-> EmptyMap]

ArchiveRef(path, archive_info) ==
    [kind |-> "Archive", path |-> path, functions |-> EmptyMap,
     archive_info |-> archive_info]

RECURSIVE group_loop(_, _, _, _)
\* the loop over external_funs_by_object, taken in the order ord, after its
\* first k entries: the archives and regular_objects maps
group_loop(objects, external_funs_by_object, ord, k) ==
    IF k = 0 THEN [archives |-> EmptyMap, regular_objects |-> EmptyMap]
    ELSE
        LET before == group_loop(objects, external_funs_by_object, ord, k - 1)
            object_index == ord[k]
            functions == external_funs_by_object[object_index]
            object_name == objects[object_index + 1]
            index == FindParen(object_name)
        IN  IF index # 0
            THEN LET path == SubSeq(object_name, 1, index - 1)
                     paren_rest == SubSeq(object_name, index, Len(object_name))
                     name_in_archive ==
                        TrimEndMatches(TrimStartMatches(paren_rest, "("), ")")
                     archive_info == IF path \in DOMAIN before.archives
                                     THEN before.archives[path] ELSE EmptyMap
                 IN  [before EXCEPT !.archives =
                        MapInsert(@, path,
                                  MapInsert(archive_info, name_in_archive, functions))]
            ELSE [before EXCEPT !.regular_objects =
                        MapInsert(@, object_name, functions)]

\* the references pushed at the end of the split: the archives in the order
\* oa, then the regular objects in the order orr
pushed_references(grouped, oa, orr) ==
    [k \in 1..Len(oa) |-> ArchiveRef(oa[k], grouped.archives[oa[k]])]
    \o [k \in 1..Len(orr) |-> RegularRef(orr[k], grouped.regular_objects[orr[k]])]

\* lines 350-353: the object map's symbols, sorted by address
sorted_object_map_symbols(macho_file) ==
    SortByKey(macho_file.object_map_symbols, "address")

\* the matched function m is a record of the symbol fun: its object index and
\* name are that symbol's and each of its addresses is one of the pairs, lying
\* in the symbol's range at the recorded offset
RecordOfSymbol(m, fun, addresses) ==
    /\ m.object_index = fun.object_index
    /\ m.fun_name = fun.name
    /\ \A n \in 1..Len(m.addresses) :
            /\ m.addresses[n].offset_from_function_start < fun.size
            /\ \E i \in 1..Len(addresses) :
                    /\ addresses[i].original_address = m.addresses[n].original_address
                    /\ addresses[i].address_in_this_object
                            = fun.address + m.addresses[n].offset_from_function_start

\* lines 353-354, 434-483 observed: the matched functions are records of
\* symbols at strictly increasing positions of function_symbols (so in the
\* order of function_symbols, no symbol with two records), and
\* function_symbols is ascending by address
matches_in_order(function_symbols, addresses, matches) ==
    /\ \A k \in 1..(Len(function_symbols) - 1) :
            function_symbols[k].address <= function_symbols[k + 1].address
    /\ \E p \in [1..Len(matches) -> 1..Len(function_symbols)] :
            /\ \A k \in 1..Len(matches) :
                    RecordOfSymbol(matches[k], function_symbols[p[k]], addresses)
            /\ \A k \in 1..(Len(matches) - 1) : p[k] < p[k + 1]

\* the observation for one split
split_in_order(macho_file, addresses) ==
    matches_in_order(sorted_object_map_symbols(macho_file), addresses,
                     match_funs_to_addresses(sorted_object_map_symbols(macho_file),
                                             addresses))

\* collect_debug_info_and_object_references: every outcome the split of one
\* object can have (the HashMaps are iterated in an unspecified order);
\* internal is what the DWARF collector is called with, references what is
\* pushed onto the FIFO, in order
collect_debug_info_and_object_references(macho_file, addresses) ==
    LET object_map_symbols == sorted_object_map_symbols(macho_file)
        functions_with_addresses ==
            match_funs_to_addresses(object_map_symbols, addresses)
        external_funs_by_object ==
            external_funs_loop(functions_with_addresses, Len(functions_with_addresses))
        internal == internal_addresses(addresses, functions_with_addresses)
    IN  UNION {
            LET grouped == group_loop(macho_file.objects, external_funs_by_object,
                                      ord, Len(ord))
            IN  {[internal |-> internal,
                  references |-> pushed_references(grouped, oa, orr)] :
                    oa \in Orders(DOMAIN grouped.archives),
                    orr \in Orders(DOMAIN grouped.regular_objects)}
            : ord \in Orders(DOMAIN external_funs_by_object)}

-----------------------------------------------------------------------------
(* macho.rs: address pairs, object references and the files behind them    *)

\* make_address_pairs_for_root_object
make_address_pairs_for_root_object(addresses, macho_file) ==
    LET segments == macho_file.segments
        text == {i \in 1..Len(segments) : segments[i].name = "__TEXT"}
        vmaddr_of_text_segment ==
            IF text = {} THEN 0
            ELSE segments[CHOOSE i \in text : \A j \in text : i <= j].address
    IN  [k \in 1..Len(addresses) |->
            [original_address |-> addresses[k],
             address_in_this_object |-> vmaddr_of_text_segment + addresses[k]]]

\* HashMap::remove
MapRemove(map, key) == [k \in DOMAIN map \ {key} |-> map[k]]

RECURSIVE translate_loop(_, _, _)
\* the loop over macho_file.symbols() after its first k symbols
translate_loop(symbols, functions, k) ==
    IF k = 0 THEN [functions |-> functions, addresses_in_this_object |-> <<>>]
    ELSE
        LET before == translate_loop(symbols, functions, k - 1)
            symbol == symbols[k]
        IN  IF symbol.name \in DOMAIN before.functions
            THEN \* get_and_remove_addresses_for_function
                 LET addresses == before.functions[symbol.name]
                 IN  [functions |-> MapRemove(before.functions, symbol.name),
                      addresses_in_this_object |->
                        before.addresses_in_this_object \o
                        [n \in 1..Len(addresses) |->
                            [original_address |-> addresses[n].original_address,
                             address_in_this_object |->
                                symbol.address
                                + addresses[n].offset_from_function_start]]]
            ELSE before

\* a translation that leaves the pairs in symbol-table order
translate_addresses_to_object_unsorted(macho_file, functions) ==
    translate_loop(macho_file.symbols, functions,
                   Len(macho_file.symbols)).addresses_in_this_object

\* translate_addresses_to_object
translate_addresses_to_object(macho_file, functions) ==
    SortByKey(translate_loop(macho_file.symbols, functions,
                             Len(macho_file.symbols)).addresses_in_this_object,
              "address_in_this_object")

\* a byte range that File::parse rejects
InvalidObject ==
    [valid |-> FALSE, segments |-> <<>>, symbols |-> <<>>, objects |-> <<>>,
     object_map_symbols |-> <<>>]

\* File::parse
file_parse_ok(data) == data.valid

RECURSIVE archive_members_loop(_, _)
\* archive_members_by_name: collect() into a HashMap keeps the last member
\* of a name
archive_members_loop(members, k) ==
    IF k = 0 THEN EmptyMap
    ELSE MapInsert(archive_members_loop(members, k - 1), members[k].name,
                   members[k].object)

\* ObjectReference::into_objects on an opened file: an error, or the lists of
\* (data, functions) it can give (archive_info is iterated in an unspecified
\* order)
into_objects(obj_ref, file) ==
    IF obj_ref.kind = "Regular"
    THEN [tag |-> "Ok",
          lists |-> {<<[data |-> IF file.kind = "object" THEN file.object
                                  ELSE InvalidObject,
                        functions |-> obj_ref.functions]>>}]
    ELSE IF file.kind # "archive"
    THEN [tag |-> "ArchiveParseError", lists |-> {}]
    ELSE LET archive_members_by_name ==
                archive_members_loop(file.members, Len(file.members))
             Found(name_in_archive) == name_in_archive \in DOMAIN archive_members_by_name
         IN  [tag |-> "Ok",
              lists |->
                {LET v == SelectSeq(ord, Found)
                 IN  [k \in 1..Len(v) |->
                        [data |-> archive_members_by_name[v[k]],
                         functions |-> obj_ref.archive_info[v[k]]]] :
                    ord \in Orders(DOMAIN obj_ref.archive_info)}]

\* the original addresses a list of (original_address, offset) holds
OriginalsOfFunctions(functions) ==
    UNION {{functions[f][n].original_address : n \in 1..Len(functions[f])} :
            f \in DOMAIN functions}

\* the original addresses recorded in an object reference
OriginalsOfReference(obj_ref) ==
    IF obj_ref.kind = "Regular" THEN OriginalsOfFunctions(obj_ref.functions)
    ELSE UNION {OriginalsOfFunctions(obj_ref.archive_info[m]) :
                    m \in DOMAIN obj_ref.archive_info}

-----------------------------------------------------------------------------
(* macho.rs: the inputs of one get_symbolication_result call               *)

\* bounds: query addresses are 0..MaxAddress, at most MaxAddresses of them
MaxAddress == 3

MaxAddresses == 2

\* the ascending lists (repeats allowed) of at most n values of 0..top
SortedLists(top, n) ==
    UNION {{s \in [1..k -> 0..top] : \A i \in 1..(k - 1) : s[i] <= s[i + 1]} :
                k \in 0..n}

NameA == <<"a.o">>

NameB == <<"b.o">>

NameM == <<"lib.a", "(", "m.o", ")">>

NameN == <<"lib.a", "(", "n.o", ")">>

\* the root slice's segments: none, or __TEXT at vmaddr 8
SegmentSamples ==
    {<<>>, <<[name |-> "__PAGEZERO", address |-> 0], [name |-> "__TEXT", address |-> 8]>>}

\* the object-map symbols the root may have, relative to its text vmaddr
RootSymbolSamples(vmaddr) ==
    {[name |-> n, address |-> vmaddr + a, size |-> 2, object_index |-> o] :
        n \in {"f", "g"}, a \in {0, 2}, o \in {0, 1}}

\* the root objects: two object-map objects and up to two object-map symbols
RootObjects ==
    UNION {
        LET vmaddr == IF seg = <<>> THEN 0 ELSE 8
            syms == RootSymbolSamples(vmaddr)
        IN  {[valid |-> TRUE, segments |-> seg, symbols |-> <<>>,
              objects |-> <<x, y>>, object_map_symbols |-> oms] :
                x \in {NameA, NameM, NameN}, y \in {NameA, NameM, NameN},
                oms \in {<<>>} \cup {<<e>> : e \in syms}
                        \cup {<<e1, e2>> : e1 \in syms, e2 \in syms}}
        : seg \in SegmentSamples}

\* an external object without an object map: f at 4, g at 6
LeafObject ==
    [valid |-> TRUE, segments |-> <<>>,
     symbols |-> <<[name |-> "f", address |-> 4], [name |-> "g", address |-> 6]>>,
     objects |-> <<>>, object_map_symbols |-> <<>>]

\* an external object whose symbol table is not in address order: f at 6,
\* g at 4
ShuffledObject ==
    [LeafObject EXCEPT
        !.symbols = <<[name |-> "f", address |-> 6], [name |-> "g", address |-> 4]>>]

\* an external object whose object map sends f on to the object named n
LinkedObject(n) ==
    [LeafObject EXCEPT
        !.objects = <<n>>,
        !.object_map_symbols =
            <<[name |-> "f", address |-> 4, size |-> 2, object_index |-> 0]>>]

NoFile == [opened |-> FALSE, kind |-> "none", object |-> InvalidObject, members |-> <<>>]

ObjectFile(o) == [opened |-> TRUE, kind |-> "object", object |-> o, members |-> <<>>]

ArchiveFile(members) ==
    [opened |-> TRUE, kind |-> "archive", object |-> InvalidObject, members |-> members]

\* what the helper's open_file may give for a path: an error, bytes that are
\* neither an object nor an archive, an object, an archive
FileSamples ==
    {NoFile,
     [opened |-> TRUE, kind |-> "garbage", object |-> InvalidObject, members |-> <<>>],
     ObjectFile(LeafObject), ObjectFile(ShuffledObject),
     ObjectFile(LinkedObject(NameA)),
     ObjectFile(LinkedObject(NameB)),
     ArchiveFile(<<>>),
     ArchiveFile(<<[name |-> <<"m.o">>, object |-> LeafObject]>>),
     ArchiveFile(<<[name |-> <<"m.o">>, object |-> LeafObject],
                   [name |-> <<"n.o">>, object |-> LeafObject]>>),
     ArchiveFile(<<[name |-> <<"m.o">>, object |-> InvalidObject],
                   [name |-> <<"n.o">>, object |-> LeafObject]>>),
     ArchiveFile(<<[name |-> <<"n.o">>, object |-> LinkedObject(NameA)]>>)}

\* the root slice's header, as get_macho_uuid sees it
RootSliceSamples ==
    {[kind |-> "MachO64", uuid |-> UuidAB], [kind |-> "MachO64", uuid |-> UuidOne],
     [kind |-> "MachO64", uuid |-> <<>>], [kind |-> "Unparsable", uuid |-> <<>>],
     [kind |-> "Other", uuid |-> <<>>]}

QueryIdSamples ==
    {FormatBuildId(UuidAB), HexString(UuidAB, HexLower) \o <<"0">>,
     FormatBuildId(UuidOne)}

NoResult == [tag |-> "none", err |-> "", found |-> <<>>, expected |-> <<>>]

OkResult == [NoResult EXCEPT !.tag = "Ok"]

ErrResult(e) == [NoResult EXCEPT !.tag = "Err", !.err = e]

NoSplit ==
    [object |-> "none", addresses |-> <<>>, matches_in_order |-> TRUE,
     internal |-> <<>>, references |-> <<>>]

MachInit ==
    \E slice \in RootSliceSamples, id \in QueryIdSamples,
       addresses \in SortedLists(MaxAddress, MaxAddresses), wants \in BOOLEAN :
        mo = [pc |-> "start",
              slice |-> slice,
              query |-> [breakpad_id |-> id, addresses |-> addresses],
              wants_debug_info_for_addresses |-> wants,
              \* the SymbolicationResult under construction
              map_seeded |-> FALSE,      \* from_full_map was called
              dwarf_calls |-> 0,         \* calls of the DWARF collector, 2 = many
              dwarf_addresses |-> {},    \* the original addresses it was given
              \* the traversal
              remaining_object_references |-> <<>>,
              objects |-> <<>>,          \* what is left of into_objects' list
              result |-> NoResult,
              \* the files the helper has served so far
              files |-> EmptyMap,
              \* history
              opened |-> FALSE,          \* open_file was called
              skipped |-> {},            \* addresses of references not opened
              parse_failure |-> "none",  \* the parse failure of an external file
              last |-> "none",           \* the last step taken
              queue_before |-> <<>>,     \* the FIFO before the last open_file
              split |-> NoSplit]         \* the last split: input and output

-----------------------------------------------------------------------------
(* macho.rs: get_symbolication_result, step by step                        *)

Returned(m, result) == [m EXCEPT !.pc = "done", !.result = result]

\* lines 91-97: the build-id check
check_build_id(m) ==
    LET uuid == get_macho_uuid(m.slice)
    IN  CASE uuid.tag = "panic" -> Returned(m, [NoResult EXCEPT !.tag = "panic"])
          [] uuid.tag = "Err" -> Returned(m, ErrResult(uuid.val))
          [] uuid.tag = "Ok" /\ uuid.val # m.query.breakpad_id ->
                Returned(m, [ErrResult("UnmatchedBreakpadId") EXCEPT
                                !.found = uuid.val,
                                !.expected = m.query.breakpad_id])
          [] OTHER -> [m EXCEPT !.pc = "parse"]

\* the seeding that goes on to the split whatever the result kind
seed_result_always_split(m, parsed) ==
    IF ~parsed THEN Returned(m, ErrResult("MachOHeaderParseError"))
    ELSE [m EXCEPT !.map_seeded = TRUE, !.pc = "split"]

\* lines 99-106: File::parse, from_full_map and the early return
seed_result(m, parsed) ==
    IF ~parsed THEN Returned(m, ErrResult("MachOHeaderParseError"))
    ELSE LET seeded == [m EXCEPT !.map_seeded = TRUE]
         IN  IF ~m.wants_debug_info_for_addresses THEN Returned(seeded, OkResult)
             ELSE [seeded EXCEPT !.pc = "split"]

\* the original addresses of a list of address pairs
OriginalsOfPairs(pairs) == {pairs[k].original_address : k \in 1..Len(pairs)}

\* a collect call that pushes its references onto the front of the FIFO
after_collect_push_front(m, out) ==
    [m EXCEPT !.dwarf_calls = IF @ < 2 THEN @ + 1 ELSE @,
              !.dwarf_addresses = @ \cup OriginalsOfPairs(out.internal),
              !.remaining_object_references = out.references \o @]

\* the effect of one collect_debug_info_and_object_references call with the
\* outcome out: the DWARF collector is called with out.internal and
\* out.references are pushed onto the FIFO
after_collect(m, out) ==
    [m EXCEPT !.dwarf_calls = IF @ < 2 THEN @ + 1 ELSE @,
              !.dwarf_addresses = @ \cup OriginalsOfPairs(out.internal),
              !.remaining_object_references = @ \o out.references]

\* an open_file error that ends the call
on_open_error_return(m) == Returned(m, ErrResult("OpenError"))

\* lines 161-165: open_file failed, continue with the next reference
on_open_error(m) == [m EXCEPT !.pc = "loop"]

\* a parse error that is passed over like an open error
on_parse_error_continue(m, err) == [m EXCEPT !.pc = "loop", !.objects = <<>>]

\* lines 168-170, 304-309: the ? on a parse error returns it
on_parse_error(m, err) == Returned(m, ErrResult(err))

CheckBuildId ==
    /\ mo.pc = "start"
    /\ mo' = [check_build_id(mo) EXCEPT !.last = "check"]
    /\ UNCHANGED <<taskVars, arch, pdb>>

ParseAndSeed ==
    /\ mo.pc = "parse"
    /\ \E parsed \in BOOLEAN : mo' = [seed_result(mo, parsed) EXCEPT !.last = "seed"]
    /\ UNCHANGED <<taskVars, arch, pdb>>

\* lines 124-135: the split of the root object
RootSplit ==
    /\ mo.pc = "split"
    /\ \E macho_file \in RootObjects :
        LET addresses_in_root_object ==
                make_address_pairs_for_root_object(mo.query.addresses, macho_file)
        IN  \E out \in collect_debug_info_and_object_references(
                            macho_file, addresses_in_root_object) :
                mo' = [after_collect(mo, out) EXCEPT
                          !.pc = "loop",
                          !.last = "split",
                          !.split = [object |-> "root",
                                     addresses |-> addresses_in_root_object,
                                     matches_in_order |-> split_in_order(
                                        macho_file, addresses_in_root_object),
                                     internal |-> out.internal,
                                     references |-> out.references]]
    /\ UNCHANGED <<taskVars, arch, pdb>>

\* lines 157-168: pop_front, open_file, into_objects
TraverseOpen ==
    /\ mo.pc = "loop"
    /\ mo.remaining_object_references # <<>>
    /\ LET obj_ref == Head(mo.remaining_object_references)
           path == obj_ref.path
       IN  \E file \in (IF path \in DOMAIN mo.files THEN {mo.files[path]}
                        ELSE FileSamples) :
            LET popped == [mo EXCEPT
                              !.remaining_object_references = Tail(@),
                              !.files = MapInsert(@, path, file),
                              !.opened = TRUE,
                              !.queue_before = mo.remaining_object_references]
                objs == into_objects(obj_ref, file)
            IN  IF ~file.opened
                THEN mo' = on_open_error(
                            [popped EXCEPT
                                !.last = "open_failed",
                                !.skipped = @ \cup OriginalsOfReference(obj_ref)])
                ELSE IF objs.tag # "Ok"
                THEN mo' = on_parse_error(
                            [popped EXCEPT !.last = "parse_failed",
                                           !.parse_failure = "archive"],
                            objs.tag)
                ELSE \E list \in objs.lists :
                        mo' = [popped EXCEPT
                                  !.last = "opened",
                                  !.objects = list,
                                  !.pc = IF list = <<>> THEN "loop" ELSE "objects"]
    /\ UNCHANGED <<taskVars, arch, pdb>>

\* lines 168-178: one (data, functions) of the opened file
TraverseObject ==
    /\ mo.pc = "objects"
    /\ LET data == Head(mo.objects).data
           functions == Head(mo.objects).functions
           rest == [mo EXCEPT !.objects = Tail(@),
                              !.pc = IF Tail(mo.objects) = <<>> THEN "loop"
                                     ELSE "objects"]
       IN  IF ~file_parse_ok(data)
           THEN mo' = on_parse_error(
                        [rest EXCEPT !.last = "parse_failed",
                                     !.parse_failure = "object"],
                        "MachOHeaderParseError")
           ELSE LET addresses_in_this_object ==
                        translate_addresses_to_object(data, functions)
                IN  \E out \in collect_debug_info_and_object_references(
                                    data, addresses_in_this_object) :
                        mo' = [after_collect(rest, out) EXCEPT
                                  !.last = "split",
                                  !.split = [object |-> "external",
                                             addresses |-> addresses_in_this_object,
                                             matches_in_order |-> split_in_order(
                                                data, addresses_in_this_object),
                                             internal |-> out.internal,
                                             references |-> out.references]]
    /\ UNCHANGED <<taskVars, arch, pdb>>

\* lines 157, 181, 145: the FIFO is empty
TraverseReturn ==
    /\ mo.pc = "loop"
    /\ mo.remaining_object_references = <<>>
    /\ mo' = [Returned(mo, OkResult) EXCEPT !.last = "return"]
    /\ UNCHANGED <<taskVars, arch, pdb>>

InitMach == MachInit /\ TaskInit /\ ArchIdle /\ PdbIdle

NextMach ==
    \/ CheckBuildId
    \/ ParseAndSeed
    \/ RootSplit
    \/ TraverseOpen
    \/ TraverseObject
    \/ TraverseReturn

Spec == InitMach /\ [][NextMach]_vars

\* the calls that ask for the debug info of a single address
InitMachOneAddress ==
    /\ InitMach
    /\ mo.wants_debug_info_for_addresses
    /\ Len(mo.query.addresses) = 1

\* the same steps on those calls; the loop of the traversal keeps running
\* until it returns (a sequential program that can take a step takes it)
FairSpec == InitMachOneAddress /\ [][NextMach]_vars /\ WF_vars(NextMach)

\* every (original_address, offset) recorded in a list of object references,
\* as <<reference, member, function, position, original_address>>
RecordedEntries(references) ==
    UNION {
        LET r == references[k]
            members == IF r.kind = "Regular" THEN {<<>>} ELSE DOMAIN r.archive_info
            Functions(member) == IF r.kind = "Regular" THEN r.functions
                                 ELSE r.archive_info[member]
        IN  UNION {UNION {{<<k, member, f, n, Functions(member)[f][n].original_address>> :
                            n \in 1..Len(Functions(member)[f])} :
                        f \in DOMAIN Functions(member)} :
                    member \in members}
        : k \in 1..Len(references)}

\* how often the original address a occurs in a list of address pairs
Occurrences(pairs, a) ==
    Cardinality({k \in 1..Len(pairs) : pairs[k].original_address = a})

\* C2: after collect_debug_info_and_object_references ran on an object, every
\* address of its address-pair list is either among those given to the DWARF
\* collector or recorded in exactly one function entry of exactly one pushed
\* object reference: never both, never neither.
C2_RoutedExactlyOnce ==
    mo.split.object # "none" =>
        \A a \in OriginalsOfPairs(mo.split.addresses) :
            Occurrences(mo.split.addresses, a)
                = Occurrences(mo.split.internal, a)
                  + Cardinality({e \in RecordedEntries(mo.split.references) : e[5] = a})

\* C3: the traversal terminates: the call returns.
C3_TraversalTerminates == <>(mo.pc = "done")

\* C4: an open_file error skips that reference and nothing else: the call goes
\* on with the references behind it, none of the addresses routed to the
\* unopened file reaches the DWARF collector, and unless a file fails to parse
\* the call returns Ok with the FIFO empty.
C4_OpenFailureSkipped ==
    /\ mo.last = "open_failed" =>
        /\ mo.pc = "loop"
        /\ mo.result.tag = "none"
        /\ mo.remaining_object_references = Tail(mo.queue_before)
    /\ mo.skipped \cap mo.dwarf_addresses = {}
    /\ (mo.pc = "done" /\ mo.skipped # {} /\ mo.parse_failure = "none") =>
        /\ mo.result.tag = "Ok"
        /\ mo.remaining_object_references = <<>>
        /\ mo.objects = <<>>

\* C4 witness: open_file failed for the first of two pending references
C4_Witness ==
    /\ mo.last = "open_failed"
    /\ Len(mo.queue_before) = 2
    /\ mo.skipped # {}
    /\ mo.remaining_object_references = Tail(mo.queue_before)

\* C5: a parse failure of an opened external file (the archive, a regular
\* object, a selected archive member) ends the call at once with
\* ArchiveParseError or MachOHeaderParseError: no step follows it, so no
\* further file is opened and Ok is never returned.
C5_ParseFailureIsFatal ==
    mo.parse_failure # "none" =>
        /\ mo.pc = "done"
        /\ mo.last = "parse_failed"
        /\ mo.result.tag = "Err"
        /\ mo.result.err = IF mo.parse_failure = "archive" THEN "ArchiveParseError"
                           ELSE "MachOHeaderParseError"

\* C5 witness: the only file opened is an archive whose selected member is
\* not a valid object
C5_Witness ==
    /\ mo.parse_failure = "object"
    /\ mo.result.err = "MachOHeaderParseError"
    /\ \E path \in DOMAIN mo.files :
        /\ DOMAIN mo.files = {path}
        /\ mo.files[path].kind = "archive"

\* C6: a result kind that wants no per-address debug info gets the result
\* seeded from the root's symbol map at once: open_file and the DWARF
\* collector are never called and no object reference is enqueued.
C6_SymbolTableOnly ==
    ~mo.wants_debug_info_for_addresses =>
        /\ ~mo.opened
        /\ mo.dwarf_calls = 0
        /\ mo.remaining_object_references = <<>>
        /\ mo.objects = <<>>
        /\ mo.map_seeded => (mo.pc = "done" /\ mo.result.tag = "Ok")
        /\ (mo.pc = "done" /\ mo.result.tag = "Ok") => mo.map_seeded

\* C6 witness: a symbol-table-only query for two addresses returned Ok
C6_Witness ==
    /\ ~mo.wants_debug_info_for_addresses
    /\ mo.pc = "done"
    /\ mo.result.tag = "Ok"
    /\ mo.map_seeded
    /\ Len(mo.query.addresses) = 2

\* C7: when the slice has a build-id (its 16 UUID bytes as upper-case hex
\* plus "0") and it differs from query.breakpad_id, the call returns
\* UnmatchedBreakpadId(found, expected) for either result kind before the
\* symbol map is seeded, DWARF collected or a file opened; when they are equal
\* that error is never returned.
C7_UnmatchedBuildId ==
    LET hasId == mo.slice.kind \in {"MachO32", "MachO64"} /\ mo.slice.uuid # <<>>
        found == HexString(mo.slice.uuid, HexUpper) \o <<"0">>
    IN  /\ (mo.pc # "start" /\ hasId /\ found # mo.query.breakpad_id) =>
            /\ mo.pc = "done"
            /\ mo.result = [tag |-> "Err", err |-> "UnmatchedBreakpadId",
                            found |-> found, expected |-> mo.query.breakpad_id]
            /\ ~mo.map_seeded
            /\ mo.dwarf_calls = 0
            /\ ~mo.opened
        /\ mo.result.err = "UnmatchedBreakpadId" =>
            (hasId /\ found # mo.query.breakpad_id)

\* C7 witness: the ids differ only in the case of their hex digits
C7_Witness ==
    /\ mo.pc = "done"
    /\ mo.result.err = "UnmatchedBreakpadId"
    /\ mo.slice.uuid = UuidAB
    /\ mo.query.breakpad_id = HexString(UuidAB, HexLower) \o <<"0">>
    /\ mo.result.found # mo.result.expected


\* the step calls open_file: it ends in one of open_file's three outcomes
OpenFileStep ==
    \/ mo'.last \in {"opened", "open_failed"}
    \/ mo'.last = "parse_failed" /\ mo'.parse_failure = "archive"

\* s is a prefix of t
IsPrefix(s, t) == Len(s) <= Len(t) /\ SubSeq(t, 1, Len(s)) = s

\* C17: external references are processed first-in first-out with one file
\* open at a time: every open_file call is for the reference at the head of
\* the FIFO, which is taken off and leaves the others in their order; it
\* happens only after the root split and when no sub-object of the previous
\* file is left to process; every other step leaves the pending references in
\* place and puts new ones behind them.
C17_FifoOneAtATime ==
    [][ /\ OpenFileStep =>
            /\ mo.remaining_object_references # <<>>
            /\ mo.objects = <<>>
            /\ mo.split # NoSplit
            /\ mo.dwarf_calls >= 1
            /\ mo'.queue_before = mo.remaining_object_references
            /\ mo'.remaining_object_references = Tail(mo.remaining_object_references)
            /\ Head(mo.remaining_object_references).path \in DOMAIN mo'.files
            /\ mo'.last = "opened" =>
                    mo'.objects \in into_objects(
                        Head(mo.remaining_object_references),
                        mo'.files[Head(mo.remaining_object_references).path]).lists
        /\ ~OpenFileStep =>
            /\ IsPrefix(mo.remaining_object_references,
                        mo'.remaining_object_references)
            /\ mo'.opened = mo.opened
            /\ mo'.queue_before = mo.queue_before
            /\ (mo.objects # <<>> /\ mo'.pc # "done") => mo'.objects = Tail(mo.objects)
      ]_vars

\* C17 witness: a sub-object of an opened file has put references of its own
\* behind a reference that was pending before them
C17_Witness ==
    /\ mo.opened
    /\ mo.last = "split"
    /\ mo.split.object = "external"
    /\ mo.split.references # <<>>
    /\ Len(mo.remaining_object_references) > Len(mo.split.references)
    /\ mo.remaining_object_references[1] \notin Range(mo.split.references)

\* the address pairs of the last split are ascending by in-object address
SplitAddressesSorted ==
    \A i \in 1..(Len(mo.split.addresses) - 1) :
        mo.split.addresses[i].address_in_this_object
            <= mo.split.addresses[i + 1].address_in_this_object

-----------------------------------------------------------------------------
(* pdb/addr2line.rs                                                        *)

\* slice::binary_search on a sorted slice: the 0-based index of some element
\* equal to x (which one is unspecified when x is repeated), else the index
\* where x would be inserted
binary_search(s, x) ==
    IF \E k \in 1..Len(s) : s[k] = x
    THEN {k - 1 : k \in {j \in 1..Len(s) : s[j] = x}}
    ELSE {Cardinality({j \in 1..Len(s) : s[j] < x})}

\* lines 353-364: the slices the two binary searches can cut out
get_addresses_covered_by_range(addresses, range) ==
    UNION {LET half_range == Drop(addresses, start_index)
           IN  {Take(half_range, len) : len \in binary_search(half_range, range.end)}
           : start_index \in binary_search(addresses, range.start)}

\* lines 310-329: the location of a line record
line_info_to_location(line_info) == <<line_info.line_start>>

RECURSIVE find_line_infos_containing_addresses_no_size(_, _, _)
\* lines 254-282: a line record reaches to the start of the next one, the
\* last to outer_end_rva
find_line_infos_containing_addresses_no_size(lines, addresses, outer_end_rva) ==
    IF lines = <<>> THEN {<<>>}
    ELSE LET line_info == Head(lines)
             end_rva == IF Len(lines) > 1 THEN lines[2].start ELSE outer_end_rva
             range == [start |-> line_info.start, end |-> end_rva]
         IN  {IF covered = <<>> THEN rest
              ELSE <<[addresses |-> covered, line_info |-> line_info]>> \o rest :
                covered \in get_addresses_covered_by_range(addresses, range),
                rest \in find_line_infos_containing_addresses_no_size(
                            Tail(lines), addresses, outer_end_rva)}

RECURSIVE find_line_infos_containing_addresses_with_size(_, _)
\* lines 284-308: a line record without a length is passed over
find_line_infos_containing_addresses_with_size(lines, addresses) ==
    IF lines = <<>> THEN {<<>>}
    ELSE LET line_info == Head(lines)
             others == find_line_infos_containing_addresses_with_size(
                            Tail(lines), addresses)
         IN  IF line_info.length = <<>> THEN others
             ELSE LET range == [start |-> line_info.start,
                                end |-> line_info.start + line_info.length[1]]
                  IN  {IF covered = <<>> THEN rest
                       ELSE <<[addresses |-> covered, line_info |-> line_info]>> \o rest :
                         covered \in get_addresses_covered_by_range(addresses, range),
                         rest \in others}

\* lines 214-252: the frames of one inline site, <<>> for None
frames_for_addresses_for_inline_symbol(site, addresses, inlinees) ==
    IF site.name \notin inlinees THEN {<<>>}
    ELSE {[k \in 1..Len(line_infos) |->
                [addresses |-> line_infos[k].addresses,
                 frame |-> [function |-> site.name,
                            location |-> line_info_to_location(line_infos[k].line_info)]]] :
            line_infos \in find_line_infos_containing_addresses_with_size(
                                site.lines, addresses)}


\* the search with the end of the RVA range counted in
first_procedure_containing_closed(symbols, address) ==
    LET hits == {k \in 1..Len(symbols) :
                    /\ symbols[k].kind = "Procedure"
                    /\ symbols[k].mapped
                    /\ symbols[k].start <= address
                    /\ address <= symbols[k].start + symbols[k].len}
    IN  IF hits = {} THEN 0 ELSE CHOOSE k \in hits : \A j \in hits : k <= j

\* lines 57-71: the first procedure symbol of a module whose RVA range
\* contains the address, 0 if there is none
first_procedure_containing(symbols, address) ==
    LET hits == {k \in 1..Len(symbols) :
                    /\ symbols[k].kind = "Procedure"
                    /\ symbols[k].mapped
                    /\ symbols[k].start <= address
                    /\ address < symbols[k].start + symbols[k].len}
    IN  IF hits = {} THEN 0 ELSE CHOOSE k \in hits : \A j \in hits : k <= j

\* lines 55-92: the first module, in order, that has such a procedure
find_frames(modules, address) ==
    LET hits == {m \in 1..Len(modules) :
                    first_procedure_containing(modules[m].symbols, address) # 0}
    IN  IF hits = {} THEN [module |-> 0, symbol_index |-> 0]
        ELSE LET m == CHOOSE k \in hits : \A j \in hits : k <= j
             IN  [module |-> m,
                  symbol_index |-> first_procedure_containing(modules[m].symbols, address)]

RECURSIVE seed_frames(_, _, _)
\* lines 147-153: one list per address, holding the procedure's frame
seed_frames(frames_per_address, addresses, function) ==
    IF addresses = <<>> THEN frames_per_address
    ELSE seed_frames(
            MapInsert(frames_per_address, Head(addresses),
                      <<[function |-> function, location |-> <<>>]>>),
            Tail(addresses), function)

RECURSIVE set_locations(_, _, _)
\* lines 165-168: the location goes into frame 0 of every address of the subset
set_locations(frames_per_address, addresses_subset, location) ==
    IF addresses_subset = <<>> THEN frames_per_address
    ELSE set_locations(
            [frames_per_address EXCEPT ![Head(addresses_subset)][1].location = location],
            Tail(addresses_subset), location)

RECURSIVE locate_procedure_frames(_, _)
\* lines 156-169: the loop over the procedure's line records
locate_procedure_frames(frames_per_address, line_infos) ==
    IF line_infos = <<>> THEN frames_per_address
    ELSE locate_procedure_frames(
            set_locations(frames_per_address, Head(line_infos).addresses,
                          line_info_to_location(Head(line_infos).line_info)),
            Tail(line_infos))

RECURSIVE push_frame(_, _, _)
\* lines 193-198: the frame is pushed for every address of the subset
push_frame(frames_per_address, addresses_subset, frame) ==
    IF addresses_subset = <<>> THEN frames_per_address
    ELSE push_frame(
            [frames_per_address EXCEPT ![Head(addresses_subset)] = Append(@, frame)],
            Tail(addresses_subset), frame)

RECURSIVE push_inline_frames(_, _)
\* lines 192-199: the loop over the frames of one inline site
push_inline_frames(frames_per_address, inline_frames_for_addresses) ==
    IF inline_frames_for_addresses = <<>> THEN frames_per_address
    ELSE push_inline_frames(
            push_frame(frames_per_address, Head(inline_frames_for_addresses).addresses,
                       Head(inline_frames_for_addresses).frame),
            Tail(inline_frames_for_addresses))

\* Vec::reverse
Reverse(s) == [i \in 1..Len(s) |-> s[Len(s) + 1 - i]]

\* the lists left in the order they were built in
reverse_frames_skip(frames_per_address) == frames_per_address

\* lines 206-209: every list is reversed
reverse_frames(frames_per_address) ==
    [a \in DOMAIN frames_per_address |-> Reverse(frames_per_address[a])]

\* line 118: map.into_iter().next().unwrap().1, the list of the lowest address
first_entry(frames_per_address) ==
    frames_per_address[CHOOSE a \in DOMAIN frames_per_address :
                            \A b \in DOMAIN frames_per_address : a <= b]


\* bounds of the PDB model: RVAs 0..MaxRva, address lists up to MaxPdbAddresses
MaxRva == 4

MaxPdbAddresses == 2

\* a line record; length is <<>> for None
Line(start, length, line_start) ==
    [start |-> start, length |-> length, line_start |-> line_start]

Procedure(name, mapped, start, len, lines) ==
    [kind |-> "Procedure", name |-> name, mapped |-> mapped,
     start |-> start, len |-> len, lines |-> lines]

\* an inline site; name is its inlinee id, lines what inlinee.lines gives
InlineSite(name, lines) ==
    [kind |-> "InlineSite", name |-> name, mapped |-> FALSE,
     start |-> 0, len |-> 0, lines |-> lines]

OtherSymbol ==
    [kind |-> "Other", name |-> "", mapped |-> FALSE, start |-> 0, len |-> 0,
     lines |-> <<>>]

\* two nested inline sites, then the next procedure
ModuleNested ==
    [symbols |-> <<Procedure("outer", TRUE, 0, 4,
                             <<Line(0, <<>>, 10), Line(2, <<>>, 11)>>),
                   InlineSite("inl1", <<Line(1, <<2>>, 20)>>),
                   OtherSymbol,
                   InlineSite("inl2", <<Line(2, <<1>>, 30)>>),
                   Procedure("next", TRUE, 4, 1, <<Line(4, <<>>, 12)>>),
                   InlineSite("inl1", <<Line(4, <<1>>, 21)>>)>>,
     inlinees |-> {"inl1", "inl2"}]

\* a site with two line records over one address, a site whose record has no
\* length, a site whose inlinee is not in the inlinee table
ModuleSplit ==
    [symbols |-> <<Procedure("outer", TRUE, 0, 3, <<Line(0, <<>>, 10)>>),
                   InlineSite("inl1", <<Line(1, <<1>>, 20), Line(1, <<2>>, 21)>>),
                   InlineSite("gone", <<Line(0, <<>>, 40)>>),
                   InlineSite("unknown", <<Line(0, <<3>>, 50)>>)>>,
     inlinees |-> {"inl1", "gone"}]

\* a procedure without an RVA, two procedures side by side
ModuleTwo ==
    [symbols |-> <<OtherSymbol,
                   Procedure("hidden", FALSE, 0, 5, <<>>),
                   Procedure("first", TRUE, 0, 2, <<Line(0, <<>>, 10)>>),
                   Procedure("second", TRUE, 2, 3, <<Line(2, <<>>, 11)>>),
                   InlineSite("inl1", <<Line(2, <<2>>, 20)>>)>>,
     inlinees |-> {"inl1"}]

ModulePlain ==
    [symbols |-> <<Procedure("plain", TRUE, 1, 2, <<>>)>>, inlinees |-> {}]

\* two procedures whose RVA ranges overlap
ModuleOverlap ==
    [symbols |-> <<Procedure("wide", TRUE, 0, 4, <<Line(0, <<>>, 10)>>),
                   Procedure("narrow", TRUE, 1, 2, <<Line(1, <<>>, 11)>>)>>,
     inlinees |-> {}]

ModuleSamples == {ModuleNested, ModuleSplit, ModuleTwo, ModulePlain, ModuleOverlap}

\* the module lists of a PDB: one or two modules
ModuleLists ==
    {<<m>> : m \in ModuleSamples} \cup {<<m, n>> : m, n \in ModuleSamples}

NoFrames == [tag |-> "none", frames |-> <<>>, map |-> EmptyMap]

PdbInit ==
    \E modules \in ModuleLists :
        pdb = [pc |-> "start",
               modules |-> modules,
               call |-> "none",           \* the entry point called
               addresses |-> <<>>,
               module |-> 0,              \* the module of the procedure
               symbol_index |-> 0,        \* the procedure symbol
               position |-> 0,            \* inline_symbols_iter
               frames_per_address |-> EmptyMap,
               result |-> NoFrames]

\* lines 43-93, 109-110: find_frames for one address up to the call of
\* find_frames_for_addresses_from_procedure
FindFrames ==
    /\ pdb.pc = "start"
    /\ \E address \in 0..MaxRva :
        LET hit == find_frames(pdb.modules, address)
        IN  pdb' = IF hit.module = 0
                   THEN [pdb EXCEPT !.pc = "done", !.call = "find_frames",
                                    !.addresses = <<address>>,
                                    !.result = [NoFrames EXCEPT !.tag = "frames"]]
                   ELSE [pdb EXCEPT !.pc = "seed", !.call = "find_frames",
                                    !.addresses = <<address>>,
                                    !.module = hit.module,
                                    !.symbol_index = hit.symbol_index]
    /\ UNCHANGED <<taskVars, arch, mo>>

\* lines 122-131: find_frames_for_addresses_from_procedure called with a
\* sorted address list and a procedure of the PDB
FindFramesForAddresses ==
    /\ pdb.pc = "start"
    /\ \E addresses \in SortedLists(MaxRva, MaxPdbAddresses),
          m \in 1..Len(pdb.modules) :
        \E k \in 1..Len(pdb.modules[m].symbols) :
            /\ pdb.modules[m].symbols[k].kind = "Procedure"
            /\ pdb.modules[m].symbols[k].mapped
            /\ pdb' = [pdb EXCEPT !.pc = "seed", !.call = "for_addresses",
                                  !.addresses = addresses,
                                  !.module = m, !.symbol_index = k]
    /\ UNCHANGED <<taskVars, arch, mo>>

\* lines 136-174: the procedure's frame for every address, its locations, and
\* the symbol iterator moved behind the procedure symbol
SeedFrames ==
    /\ pdb.pc = "seed"
    /\ LET proc == pdb.modules[pdb.module].symbols[pdb.symbol_index]
           seeded == seed_frames(EmptyMap, pdb.addresses, proc.name)
       IN  \E line_infos \in find_line_infos_containing_addresses_no_size(
                                proc.lines, pdb.addresses, proc.start + proc.len) :
                pdb' = [pdb EXCEPT
                          !.pc = "sites",
                          !.frames_per_address =
                                locate_procedure_frames(seeded, line_infos),
                          !.position = pdb.symbol_index + 1]
    /\ UNCHANGED <<taskVars, arch, mo>>

\* lines 176-204: one turn of the loop over the symbols behind the procedure
InlineSymbol ==
    /\ pdb.pc = "sites"
    /\ LET symbols == pdb.modules[pdb.module].symbols
       IN  IF pdb.position > Len(symbols) \/ symbols[pdb.position].kind = "Procedure"
           THEN pdb' = [pdb EXCEPT !.pc = "reverse"]
           ELSE IF symbols[pdb.position].kind = "InlineSite"
           THEN \E inline_frames_for_addresses \in
                        frames_for_addresses_for_inline_symbol(
                            symbols[pdb.position], pdb.addresses,
                            pdb.modules[pdb.module].inlinees) :
                    pdb' = [pdb EXCEPT
                              !.frames_per_address =
                                    push_inline_frames(@, inline_frames_for_addresses),
                              !.position = @ + 1]
           ELSE pdb' = [pdb EXCEPT !.position = @ + 1]
    /\ UNCHANGED <<taskVars, arch, mo>>

\* lines 206-211, 118: the lists are reversed and returned
ReverseFrames ==
    /\ pdb.pc = "reverse"
    /\ LET frames_per_address == reverse_frames(pdb.frames_per_address)
       IN  pdb' = [pdb EXCEPT
                     !.pc = "done",
                     !.frames_per_address = frames_per_address,
                     !.result = IF pdb.call = "find_frames"
                                THEN [NoFrames EXCEPT
                                        !.tag = "frames",
                                        !.frames = first_entry(frames_per_address)]
                                ELSE [NoFrames EXCEPT
                                        !.tag = "map", !.map = frames_per_address]]
    /\ UNCHANGED <<taskVars, arch, mo>>

InitPdb == PdbInit /\ TaskInit /\ ArchIdle /\ MachIdle

NextPdb ==
    \/ FindFrames
    \/ FindFramesForAddresses
    \/ SeedFrames
    \/ InlineSymbol
    \/ ReverseFrames

SpecPdb == InitPdb /\ [][NextPdb]_vars


\* the frame lists a finished call returned
ReturnedLists ==
    IF pdb.result.tag = "frames" THEN {pdb.result.frames}
    ELSE {pdb.result.map[a] : a \in DOMAIN pdb.result.map}

\* the inline-site symbols between the procedure symbol and the next
\* procedure symbol
WalkedSites ==
    LET symbols == pdb.modules[pdb.module].symbols
    IN  {p \in (pdb.symbol_index + 1)..Len(symbols) :
            /\ symbols[p].kind = "InlineSite"
            /\ \A q \in (pdb.symbol_index + 1)..p : symbols[q].kind # "Procedure"}

\* the place in the symbol stream of the walked inline site called function,
\* 0 if there is none; a site nested in another one comes behind it
SitePosition(function) ==
    LET symbols == pdb.modules[pdb.module].symbols
        sites == {p \in WalkedSites : symbols[p].name = function}
    IN  IF sites = {} THEN 0 ELSE CHOOSE p \in sites : TRUE

\* C1 (as the code has it): every non-empty returned frame list is ordered
\* innermost first: the last index is the frame of the enclosing procedure,
\* the frames before it are inline frames, the deepest inline site at index 0.
C1_InnermostFirst ==
    pdb.pc = "done" =>
        \A frames \in ReturnedLists :
            frames # <<>> =>
                /\ Last(frames).function
                        = pdb.modules[pdb.module].symbols[pdb.symbol_index].name
                /\ \A i \in 1..(Len(frames) - 1) : SitePosition(frames[i].function) # 0
                /\ \A i, j \in 1..(Len(frames) - 1) :
                        i < j => SitePosition(frames[i].function)
                                    >= SitePosition(frames[j].function)

\* C1 witness: find_frames for an address inside one inline site of a
\* procedure returned [inlinee, procedure], each frame with its own line
C1_Witness ==
    /\ pdb.pc = "done"
    /\ pdb.call = "find_frames"
    /\ pdb.result.frames = <<[function |-> "inl1", location |-> <<20>>],
                             [function |-> "outer", location |-> <<10>>]>>

\* C1 as stated: every non-empty returned frame list is ordered outermost
\* first: index 0 is the frame of the enclosing procedure and the deepest
\* inline frame is last.
C1_OutermostFirst ==
    pdb.pc = "done" =>
        \A frames \in ReturnedLists :
            frames # <<>> =>
                /\ frames[1].function
                        = pdb.modules[pdb.module].symbols[pdb.symbol_index].name
                /\ \A i \in 2..Len(frames) : SitePosition(frames[i].function) # 0
                /\ \A i, j \in 2..Len(frames) :
                        i < j => SitePosition(frames[i].function)
                                    <= SitePosition(frames[j].function)


\* the procedures <<module, symbol>> of the PDB that have an RVA and whose
\* half-open range [start, start + len) contains the address
ContainingProcedures(address) ==
    {mk \in UNION {{<<m, k>> : k \in 1..Len(pdb.modules[m].symbols)} :
                        m \in 1..Len(pdb.modules)} :
        LET symbol == pdb.modules[mk[1]].symbols[mk[2]]
        IN  /\ symbol.kind = "Procedure"
            /\ symbol.mapped
            /\ symbol.start <= address
            /\ address < symbol.start + symbol.len}

\* mk comes before nl in module and symbol order
Before(mk, nl) == mk[1] < nl[1] \/ (mk[1] = nl[1] /\ mk[2] <= nl[2])

\* C11: find_frames returns an empty list exactly when the RVA is in no
\* procedure's range [rva_start, rva_start + length) of any module; otherwise
\* the list is not empty and is the one of the first such procedure in module
\* and symbol order.
C11_EmptyIffNoProcedure ==
    (pdb.pc = "done" /\ pdb.call = "find_frames") =>
        LET containing == ContainingProcedures(pdb.addresses[1])
        IN  /\ pdb.result.tag = "frames"
            /\ pdb.result.frames = <<>> <=> containing = {}
            /\ containing # {} =>
                LET first == CHOOSE mk \in containing :
                                \A nl \in containing : Before(mk, nl)
                IN  /\ <<pdb.module, pdb.symbol_index>> = first
                    /\ \E k \in 1..Len(pdb.result.frames) :
                        pdb.result.frames[k].function
                            = pdb.modules[first[1]].symbols[first[2]].name

\* C11 witness: the address is inside a procedure of each of two modules and
\* inside two procedures of the first module
C11_Witness ==
    /\ pdb.pc = "done"
    /\ pdb.call = "find_frames"
    /\ pdb.modules = <<ModuleOverlap, ModuleNested>>
    /\ pdb.addresses = <<1>>
    /\ pdb.result.frames = <<[function |-> "wide", location |-> <<10>>]>>


\* the walked inline site at place p has a line record whose range contains
\* the address
SiteContains(p, address) ==
    LET site == pdb.modules[pdb.module].symbols[p]
    IN  /\ site.name \in pdb.modules[pdb.module].inlinees
        /\ \E n \in 1..Len(site.lines) :
            /\ site.lines[n].length # <<>>
            /\ site.lines[n].start <= address
            /\ address < site.lines[n].start + site.lines[n].length[1]

\* C12: every returned frame list has exactly 1 + k frames, k the number of
\* inline sites between the procedure symbol and the next procedure symbol
\* whose line records contain the address: the procedure's frame and one
\* frame for each containing site.
C12_OnePlusContainingSites ==
    (pdb.pc = "done" /\ pdb.module # 0) =>
        \A a \in DOMAIN pdb.frames_per_address :
            LET frames == pdb.frames_per_address[a]
                containing == {p \in WalkedSites : SiteContains(p, a)}
            IN  /\ Len(frames) = 1 + Cardinality(containing)
                /\ \A p \in containing :
                    Cardinality({i \in 1..Len(frames) :
                        frames[i].function
                            = pdb.modules[pdb.module].symbols[p].name}) = 1


-----------------------------------------------------------------------------
(* process_launcher.rs: next_message on one datagram                       *)

\* accept has returned a datagram of the child
MessageInit ==
    \E m \in ChildMessages :
        /\ ret = [op |-> "accept", msg |-> m]
        /\ tasks = <<>> /\ origin = <<>> /\ takes = <<>>
        /\ startLog = <<>> /\ sent = <<>> /\ nCalls = 0

\* lines 96-125: the datagram is decoded
DecodeMessage ==
    /\ ret.op = "accept"
    /\ ret' = [op |-> "next_message", msg |-> ret.msg,
               result |-> next_message(ret.msg)]
    /\ nCalls' = nCalls + 1
    /\ UNCHANGED <<tasks, origin, takes, startLog, sent, arch, mo, pdb>>

InitMessage == MessageInit /\ ArchIdle /\ MachIdle /\ PdbIdle

NextMessageOnly ==
    \/ DecodeMessage

SpecMessage == InitMessage /\ [][NextMessageOnly]_vars

\* C13: the datagram "Jitdump", 4 pid bytes, a length byte L and L path
\* bytes is decoded to JitdumpPath(pid, path) with the little-endian pid and
\* exactly those L bytes as the path, and to no AcceptedTask.
C13_JitdumpPath ==
    ret.op = "next_message" =>
        LET data == ret.msg.data
        IN  (/\ Len(data) >= 12
             /\ SubSeq(data, 1, 7) = <<74, 105, 116, 100, 117, 109, 112>>
             /\ Len(data) = 12 + data[12]) =>
                /\ ret.result.tag = "JitdumpPath"
                /\ ret.result.pid = data[8] + data[9] * 256 + data[10] * 65536
                                    + data[11] * 16777216
                /\ ret.result.path = SubSeq(data, 13, Len(data))
                /\ Len(ret.result.path) = data[12]

\* C13 witness: length 5 and the bytes "a/b/c" gave the path "a/b/c"
C13_Witness ==
    /\ ret.op = "next_message"
    /\ ret.msg.data = <<74, 105, 116, 100, 117, 109, 112, 210, 4, 0, 0, 5,
                        97, 47, 98, 47, 99>>
    /\ ret.result = [tag |-> "JitdumpPath", pid |-> 1234,
                     path |-> <<97, 47, 98, 47, 99>>]


-----------------------------------------------------------------------------
(* macho.rs: match_funs_to_addresses on one pair of lists                  *)

\* bound of the matcher model: symbol lists up to MaxSymbols
MaxSymbols == 2

\* sizes of object-map symbols
SizeSamples == {0, 1, 2}

\* the names of the symbols of a list, by position
SymbolNames == <<"f1", "f2", "f3", "f4">>

\* what lies between the symbol-table and the DWARF address space
ShiftSamples == {0, 4}

\* the object-map symbol lists, sorted by address as line 353 leaves them;
\* ranges may overlap and sizes may be 0
SymbolLists ==
    UNION {{[k \in 1..n |-> [address |-> a[k], size |-> z[k],
                             name |-> SymbolNames[k], object_index |-> 0]] :
                a \in {s \in [1..n -> 0..MaxAddress] :
                        \A i \in 1..(n - 1) : s[i] <= s[i + 1]},
                z \in [1..n -> SizeSamples]} :
            n \in 0..MaxSymbols}

\* the address-pair lists, sorted by in-object address
PairLists ==
    {[k \in 1..Len(s) |-> [original_address |-> s[k] + shift,
                           address_in_this_object |-> s[k]]] :
        s \in SortedLists(MaxAddress, MaxAddresses), shift \in ShiftSamples}

MatchInit ==
    \E function_symbols \in SymbolLists, addresses \in PairLists :
        mo = [pc |-> "match",
              function_symbols |-> function_symbols,
              addresses |-> addresses,
              matches |-> <<>>,
              internal |-> <<>>]

\* lines 354-378: the matcher is run and the internal addresses are kept
MatchFuns ==
    /\ mo.pc = "match"
    /\ LET matches == match_funs_to_addresses(mo.function_symbols, mo.addresses)
       IN  mo' = [mo EXCEPT !.pc = "matched",
                            !.matches = matches,
                            !.internal = internal_addresses(mo.addresses, matches)]
    /\ UNCHANGED <<taskVars, arch, pdb>>

InitMatch == MatchInit /\ TaskInit /\ ArchIdle /\ PdbIdle

NextMatch ==
    \/ MatchFuns

SpecMatch == InitMatch /\ [][NextMatch]_vars

\* the symbols whose range [address, address + size) contains the in-object
\* address of the i-th pair: the naive lookup
Containing(i) ==
    {j \in 1..Len(mo.function_symbols) :
        /\ mo.function_symbols[j].address <= mo.addresses[i].address_in_this_object
        /\ mo.addresses[i].address_in_this_object
                < mo.function_symbols[j].address + mo.function_symbols[j].size}

\* the i-th pair is recorded under the j-th symbol with its offset
MatchedTo(i, j) ==
    \E r \in 1..Len(mo.matches) :
        /\ mo.matches[r].fun_name = mo.function_symbols[j].name
        /\ \E n \in 1..Len(mo.matches[r].addresses) :
            mo.matches[r].addresses[n] =
                [original_address |-> mo.addresses[i].original_address,
                 offset_from_function_start |->
                    mo.addresses[i].address_in_this_object
                        - mo.function_symbols[j].address]

\* the number of (address, offset) entries in all matched-function records
MatchedEntries ==
    Cardinality(UNION {{<<r, n>> : n \in 1..Len(mo.matches[r].addresses)} :
                            r \in 1..Len(mo.matches)})

\* the pairs that lie in no symbol's range, in order
Unmatched ==
    LET InNone(ap) == \A j \in 1..Len(mo.function_symbols) :
                        ~(/\ mo.function_symbols[j].address <= ap.address_in_this_object
                          /\ ap.address_in_this_object
                                < mo.function_symbols[j].address
                                    + mo.function_symbols[j].size)
    IN  SelectSeq(mo.addresses, InNone)

\* C14 (as the code has it): an address is matched with offset a - f.address
\* to the first symbol of the sorted list whose range [f.address,
\* f.address + f.size) contains it, and to no other; an address in no
\* symbol's range is matched to no function and stays internal.
C14_MatchesFirstContaining ==
    mo.pc = "matched" =>
        /\ \A i \in 1..Len(mo.addresses), j \in 1..Len(mo.function_symbols) :
            MatchedTo(i, j) <=>
                (Containing(i) # {} /\ \A k \in Containing(i) : j <= k /\ j \in Containing(i))
        /\ MatchedEntries
                = Cardinality({i \in 1..Len(mo.addresses) : Containing(i) # {}})
        /\ mo.internal = Unmatched

\* C14 witness: with disjoint symbols, one address on the start of a symbol
\* is matched and one on its end is not
C14_Witness ==
    /\ mo.pc = "matched"
    /\ Len(mo.function_symbols) = 2
    /\ mo.function_symbols[1].address = 0 /\ mo.function_symbols[1].size = 2
    /\ mo.function_symbols[2].address = 3 /\ mo.function_symbols[2].size = 1
    /\ mo.addresses = <<[original_address |-> 4, address_in_this_object |-> 0],
                        [original_address |-> 6, address_in_this_object |-> 2]>>
    /\ mo.matches = <<[object_index |-> 0, fun_name |-> "f1",
                       addresses |-> <<[original_address |-> 4,
                                        offset_from_function_start |-> 0]>>]>>
    /\ mo.internal = <<[original_address |-> 6, address_in_this_object |-> 2]>>

\* C14 as stated: an address is matched to a symbol with offset
\* a - f.address exactly when the symbol's range contains it, whatever the
\* sorted symbol list; an address in no range stays internal.
C14_MatchesEveryContaining ==
    mo.pc = "matched" =>
        /\ \A i \in 1..Len(mo.addresses), j \in 1..Len(mo.function_symbols) :
            MatchedTo(i, j) <=> j \in Containing(i)
        /\ mo.internal = Unmatched


-----------------------------------------------------------------------------
(* pdb/addr2line.rs: get_addresses_covered_by_range on one slice           *)

\* a sorted address slice (values may repeat) and a range start..end, which
\* may be empty or inverted
RangeInit ==
    \E addresses \in SortedLists(MaxRva, MaxPdbAddresses),
       start \in 0..(MaxRva + 1), end \in 0..(MaxRva + 1) :
        pdb = [pc |-> "range",
               addresses |-> addresses,
               range |-> [start |-> start, end |-> end],
               covered |-> <<>>]

\* lines 353-364: one of the slices the two binary searches can give
CoverRange ==
    /\ pdb.pc = "range"
    /\ \E covered \in get_addresses_covered_by_range(pdb.addresses, pdb.range) :
        pdb' = [pdb EXCEPT !.pc = "covered", !.covered = covered]
    /\ UNCHANGED <<taskVars, arch, mo>>

InitRange == RangeInit /\ TaskInit /\ ArchIdle /\ MachIdle

NextRange ==
    \/ CoverRange

SpecRange == InitRange /\ [][NextRange]_vars

\* the addresses x of the slice with start <= x < end, in order
InRange ==
    LET Covered(x) == pdb.range.start <= x /\ x < pdb.range.end
    IN  SelectSeq(pdb.addresses, Covered)

\* C15: for a slice sorted ascending (repeated values allowed) and a range
\* [s, e) the returned sub-slice holds exactly the addresses x with
\* s <= x < e, none left out and none from outside; an empty or inverted
\* range gives the empty slice.
C15_ExactlyCovered ==
    pdb.pc = "covered" =>
        /\ pdb.covered = InRange
        /\ pdb.range.end <= pdb.range.start => pdb.covered = <<>>


-----------------------------------------------------------------------------
(* macho.rs: collect_debug_info_and_object_references on one object        *)

SplitInit ==
    \E macho_file \in RootObjects, addresses \in SortedLists(MaxAddress, MaxAddresses) :
        mo = [pc |-> "object",
              macho_file |-> macho_file,
              addresses |-> make_address_pairs_for_root_object(addresses, macho_file),
              internal |-> <<>>,
              references |-> <<>>]

\* lines 340-416: one split, with one of the orders the HashMaps may have
SplitObject ==
    /\ mo.pc = "object"
    /\ \E out \in collect_debug_info_and_object_references(mo.macho_file, mo.addresses) :
        mo' = [mo EXCEPT !.pc = "collected",
                         !.internal = out.internal,
                         !.references = out.references]
    /\ UNCHANGED <<taskVars, arch, pdb>>

InitSplit == SplitInit /\ TaskInit /\ ArchIdle /\ PdbIdle

NextSplit ==
    \/ SplitObject

SpecSplit == InitSplit /\ [][NextSplit]_vars

\* the object-map symbols whose range contains the in-object address of the
\* i-th pair of the split
SymbolsContaining(i) ==
    {j \in 1..Len(mo.macho_file.object_map_symbols) :
        LET f == mo.macho_file.object_map_symbols[j]
        IN  /\ f.address <= mo.addresses[i].address_in_this_object
            /\ mo.addresses[i].address_in_this_object < f.address + f.size}

\* the j-th symbol is sorted before the k-th (by address, then by position)
SortedBefore(j, k) ==
    LET symbols == mo.macho_file.object_map_symbols
    IN  \/ symbols[j].address < symbols[k].address
        \/ (symbols[j].address = symbols[k].address /\ j <= k)

\* the pairs of the split that lie in a symbol's range, with the first such
\* symbol in sorted order: <<i, j>>
MatchedPairs ==
    {ij \in (1..Len(mo.addresses)) \X (1..Len(mo.macho_file.object_map_symbols)) :
        /\ ij[2] \in SymbolsContaining(ij[1])
        /\ \A k \in SymbolsContaining(ij[1]) : SortedBefore(ij[2], k)}

\* the source path of the object the j-th symbol comes from
SourceOf(j) ==
    mo.macho_file.objects[mo.macho_file.object_map_symbols[j].object_index + 1]

IsArchiveName(name) == \E k \in 1..Len(name) : name[k] = "("

\* archive_path and member_name of a source path lib.a(m.o)
ArchivePathOf(name) ==
    SubSeq(name, 1, (CHOOSE k \in 1..Len(name) :
                        name[k] = "(" /\ \A l \in 1..(k - 1) : name[l] # "(") - 1)

MemberOf(name) == SubSeq(name, Len(ArchivePathOf(name)) + 2, Len(name) - 1)

\* the functions a reference holds for a source path
FunctionsFor(r, name) ==
    IF r.kind = "Regular" THEN r.functions
    ELSE IF MemberOf(name) \in DOMAIN r.archive_info THEN r.archive_info[MemberOf(name)]
    ELSE EmptyMap

\* the reference r is the one of the source path
IsReferenceOf(r, name) ==
    IF IsArchiveName(name) THEN r.kind = "Archive" /\ r.path = ArchivePathOf(name)
    ELSE r.kind = "Regular" /\ r.path = name

\* the source paths that have matched addresses
MatchedSources == {SourceOf(ij[2]) : ij \in MatchedPairs}

\* one Archive reference per archive path with one entry per member name, one
\* Regular reference per other path, each pushed once, and no other reference
C16_Grouped ==
    /\ \A name \in MatchedSources :
        Cardinality({k \in 1..Len(mo.references) :
                        IsReferenceOf(mo.references[k], name)}) = 1
    /\ \A k \in 1..Len(mo.references) :
        /\ \E name \in MatchedSources : IsReferenceOf(mo.references[k], name)
        /\ mo.references[k].kind = "Archive" =>
            DOMAIN mo.references[k].archive_info =
                {MemberOf(name) : name \in {n \in MatchedSources :
                    IsArchiveName(n) /\ ArchivePathOf(n) = mo.references[k].path}}

\* every matched address is held by the reference of its source path, under
\* its function, with its offset
C16_Carried ==
    \A ij \in MatchedPairs :
        LET f == mo.macho_file.object_map_symbols[ij[2]]
            a == mo.addresses[ij[1]]
        IN  \E k \in 1..Len(mo.references) :
            /\ IsReferenceOf(mo.references[k], SourceOf(ij[2]))
            /\ LET functions == FunctionsFor(mo.references[k], SourceOf(ij[2]))
               IN  /\ f.name \in DOMAIN functions
                   /\ \E n \in 1..Len(functions[f.name]) :
                        functions[f.name][n] =
                            [original_address |-> a.original_address,
                             offset_from_function_start |->
                                a.address_in_this_object - f.address]

\* C16: in one split all source paths archive_path(member_name) with one
\* archive_path are merged into one Archive reference with one entry per
\* member name, every path without "(" becomes its own Regular reference,
\* each reference is pushed once and carries the addresses matched to its
\* functions.
C16_ArchivesMerged ==
    mo.pc = "collected" => (C16_Grouped /\ C16_Carried)

=====
